---- MODULE Spec2Model ----
(***************************************************************************)
(* Model of the "Musson" furnace sizing calculator (src/musson_app.py).    *)
(*                                                                         *)
(* The script is one top-to-bottom computation over the widget values:     *)
(* heat loss -> reported breakdown -> per-model comparison table ->        *)
(* suitable models -> recommendation and fuel projection, or the           *)
(* deficiency notice.  Each of these script sections is one action; the    *)
(* widget values are drawn in Init.                                        *)
(*                                                                         *)
(* Numbers: Python floats are modelled as exact rationals <<n, d>> with    *)
(* d > 0 and gcd(n, d) = 1 (0.4 is 2/5, 3.6 is 18/5, 1.2 is 6/5).          *)
(* Catalog keys are transliterated: kirpich = "кирпич", gazoblok =         *)
(* "газоблок", hvoynye = "хвойные", dub = "дуб", mebelnye_othody =         *)
(* "мебельные отходы", "Musson 300" = "Муссон 300", ...                    *)
(***************************************************************************)
EXTENDS Integers, Sequences, FiniteSets

VARIABLES
    area_m2, height_m, wall_thickness, material, t_in, t_out,
    windows_m2, doors_m2, roof_insulation,
    working_hours, fuel_type, fill_fraction, efficiency, burn_hours,
    pc, heat_loss_kw, breakdown, results, suitable_models, best_model,
    projection

inputs == <<area_m2, height_m, wall_thickness, material, t_in, t_out,
            windows_m2, doors_m2, roof_insulation,
            working_hours, fuel_type, fill_fraction, efficiency, burn_hours>>

vars == <<area_m2, height_m, wall_thickness, material, t_in, t_out,
          windows_m2, doors_m2, roof_insulation,
          working_hours, fuel_type, fill_fraction, efficiency, burn_hours,
          pc, heat_loss_kw, breakdown, results, suitable_models, best_model,
          projection>>

----------------------------------------------------------------------------
(* Exact rational arithmetic standing for the float operators.             *)

Abs(x) == IF x < 0 THEN -x ELSE x

RECURSIVE GCD(_, _)
GCD(a, b) == IF b = 0 THEN a ELSE GCD(b, a % b)

\* the rational n/d in lowest terms with a positive denominator (d # 0)
R(n, d) ==
    LET g == GCD(Abs(n), Abs(d))
        s == IF d < 0 THEN -1 ELSE 1
    IN  <<(s * n) \div g, (s * d) \div g>>

Q(n) == <<n, 1>>

RAdd(a, b) ==
    LET g == GCD(a[2], b[2])
    IN  R(a[1] * (b[2] \div g) + b[1] * (a[2] \div g), a[2] * (b[2] \div g))

RNeg(a) == <<-a[1], a[2]>>

RSub(a, b) == RAdd(a, RNeg(b))

RMul(a, b) ==
    LET g1 == GCD(Abs(a[1]), b[2])
        g2 == GCD(Abs(b[1]), a[2])
    IN  IF a[1] = 0 \/ b[1] = 0 THEN <<0, 1>>
        ELSE <<(a[1] \div g1) * (b[1] \div g2), (a[2] \div g2) * (b[2] \div g1)>>

\* a / b for b # 0 (a zero divisor raises ZeroDivisionError: see the callers)
RDiv(a, b) ==
    IF b[1] < 0 THEN RMul(a, <<-b[2], -b[1]>>) ELSE RMul(a, <<b[2], b[1]>>)

\* an / ad <= bn / bd for ad, bd > 0, by integer parts and then the
\* reciprocals of the fractional parts (no product is formed)
RECURSIVE LeFrac(_, _, _, _)
LeFrac(an, ad, bn, bd) ==
    IF an \div ad # bn \div bd THEN an \div ad < bn \div bd
    ELSE IF an % ad = 0 THEN TRUE
    ELSE IF bn % bd = 0 THEN FALSE
    ELSE LeFrac(bd, bn % bd, ad, an % ad)

RLe(a, b) == LeFrac(a[1], a[2], b[1], b[2])

RLt(a, b) == ~RLe(b, a)

IsZero(a) == a[1] = 0

\* math.ceil of a rational
Ceil(a) == -((-a[1]) \div a[2])

\* math.sqrt on the perfect squares the inputs are drawn from
Sqrt(n) == CHOOSE r \in 0..n : r * r = n

Max(a, b) == IF a >= b THEN a ELSE b

----------------------------------------------------------------------------
(* Catalogs (module-level dictionaries).                                   *)

MATERIALS ==
    [m \in {"kirpich", "gazoblok", "derevo", "sendvich_panel",
            "keramzit_blok", "penobeton"} |->
        CASE m = "kirpich" -> R(81, 100)
          [] m = "gazoblok" -> R(12, 100)
          [] m = "derevo" -> R(18, 100)
          [] m = "sendvich_panel" -> R(4, 100)
          [] m = "keramzit_blok" -> R(43, 100)
          [] m = "penobeton" -> R(14, 100)]

\* a dict keeps insertion order: smallest to largest firebox
MUSSON_MODELS ==
    << [model |-> "Musson 300", volume_l |-> 77, price |-> 45000],
       [model |-> "Musson 600", volume_l |-> 125, price |-> 65000],
       [model |-> "Musson 1000", volume_l |-> 200, price |-> 85000],
       [model |-> "Musson 1500", volume_l |-> 311, price |-> 110000],
       [model |-> "Musson 2000", volume_l |-> 467, price |-> 135000] >>

FUEL_TYPES ==
    [f \in {"hvoynye", "bereza", "dub", "yasen", "ldsp", "dsp", "fanera",
            "mebelnye_othody", "stroitelnye_othody"} |->
        CASE f = "hvoynye" -> [density |-> 350, q |-> Q(17), price_per_ton |-> 2500]
          [] f = "bereza" -> [density |-> 450, q |-> Q(18), price_per_ton |-> 3500]
          [] f = "dub" -> [density |-> 550, q |-> R(195, 10), price_per_ton |-> 5000]
          [] f = "yasen" -> [density |-> 520, q |-> Q(19), price_per_ton |-> 4500]
          [] f = "ldsp" -> [density |-> 650, q |-> R(165, 10), price_per_ton |-> 1500]
          [] f = "dsp" -> [density |-> 680, q |-> Q(16), price_per_ton |-> 1200]
          [] f = "fanera" -> [density |-> 600, q |-> R(168, 10), price_per_ton |-> 1800]
          [] f = "mebelnye_othody" -> [density |-> 550, q |-> R(155, 10), price_per_ton |-> 1000]
          [] f = "stroitelnye_othody" -> [density |-> 500, q |-> Q(14), price_per_ton |-> 800]]

----------------------------------------------------------------------------
(* calc_heat_loss and its terms (watts).                                   *)

DeltaT(ti, to) == Q(ti - to)

\* wall_area = 2 * height_m * (math.sqrt(area_m2) * 4) - windows_m2 - doors_m2
WallArea(area, height, windows, doors) ==
    RSub(RSub(RMul(RMul(Q(2), height), Q(Sqrt(area) * 4)), Q(windows)), Q(doors))

RWall(thickness, mat) == RDiv(thickness, MATERIALS[mat])

QWalls(area, height, thickness, mat, ti, to, windows, doors) ==
    RDiv(RMul(WallArea(area, height, windows, doors), DeltaT(ti, to)),
         RWall(thickness, mat))

QWindows(windows, ti, to) == RDiv(RMul(Q(windows), DeltaT(ti, to)), R(4, 10))

QDoors(doors, ti, to) == RDiv(RMul(Q(doors), DeltaT(ti, to)), R(6, 10))

RoofR(roof) == IF ~roof THEN R(2, 10) ELSE Q(1)

QRoof(area, ti, to, roof) == RDiv(RMul(Q(area), DeltaT(ti, to)), RoofR(roof))

QVent(area, height, ti, to) ==
    RMul(RMul(R(3, 10), RMul(Q(area), height)), DeltaT(ti, to))

\* the exception calc_heat_loss raises, "" when it returns:
\* MATERIALS[material] (KeyError), math.sqrt of a negative (ValueError),
\* division by r_wall = 0 (ZeroDivisionError)
calc_heat_loss_raises(area, thickness, mat) ==
    IF mat \notin DOMAIN MATERIALS THEN "KeyError"
    ELSE IF area < 0 THEN "ValueError"
    ELSE IF IsZero(thickness) THEN "ZeroDivisionError"
    ELSE ""

calc_heat_loss(area, height, thickness, mat, ti, to, windows, doors, roof) ==
    LET total_w ==
            RAdd(RAdd(RAdd(RAdd(
                QWalls(area, height, thickness, mat, ti, to, windows, doors),
                QWindows(windows, ti, to)),
                QDoors(doors, ti, to)),
                QRoof(area, ti, to, roof)),
                QVent(area, height, ti, to))
    IN  RDiv(total_w, Q(1000))

\* the expander "detailed heat-loss calculation": four lines, each a share
\* of the total
ReportedBreakdown(heat) ==
    [walls |-> RMul(heat, R(6, 10)),
     windows_doors |-> RMul(heat, R(25, 100)),
     roof |-> RMul(heat, R(1, 10)),
     ventilation |-> RMul(heat, R(5, 100))]

\* required power: heat_loss_kw * 1.2
RequiredPower(heat) == RMul(heat, R(12, 10))

----------------------------------------------------------------------------
(* musson_power and calculate_fuel_consumption.                            *)

\* load_power with the burn time multiplied in instead of divided out
load_power_times_burn(volume_l, fill, density, q, eff, burn) ==
    LET vol_m3 == RDiv(Q(volume_l), Q(1000))
        filled_vol_m3 == RMul(vol_m3, fill)
        m_fuel == RMul(filled_vol_m3, Q(density))
        q_fuel == RMul(m_fuel, q)
        q_kwh == RDiv(q_fuel, R(36, 10))
        useful_kwh == RMul(q_kwh, eff)
        p_kw == RMul(useful_kwh, Q(burn))
    IN  [useful_kwh |-> useful_kwh, p_kw |-> p_kw, m_fuel |-> m_fuel]

\* the body of musson_power, given the fuel's density and q
load_power(volume_l, fill, density, q, eff, burn) ==
    LET vol_m3 == RDiv(Q(volume_l), Q(1000))
        filled_vol_m3 == RMul(vol_m3, fill)
        m_fuel == RMul(filled_vol_m3, Q(density))
        q_fuel == RMul(m_fuel, q)
        q_kwh == RDiv(q_fuel, R(36, 10))
        useful_kwh == RMul(q_kwh, eff)
        p_kw == RDiv(useful_kwh, Q(burn))
    IN  [useful_kwh |-> useful_kwh, p_kw |-> p_kw, m_fuel |-> m_fuel]

musson_power(volume_l, fill, fuel, eff, burn) ==
    load_power(volume_l, fill, FUEL_TYPES[fuel].density, FUEL_TYPES[fuel].q,
               eff, burn)

\* FUEL_TYPES[fuel_type] (KeyError), division by burn_hours = 0
musson_power_raises(fuel, burn) ==
    IF fuel \notin DOMAIN FUEL_TYPES THEN "KeyError"
    ELSE IF burn = 0 THEN "ZeroDivisionError"
    ELSE ""

\* calculate_fuel_consumption without the working hours
calculate_fuel_consumption_hourly(heat, hours, fuel_energy_kwh_per_kg) ==
    RDiv(heat, fuel_energy_kwh_per_kg)

calculate_fuel_consumption(heat, hours, fuel_energy_kwh_per_kg) ==
    LET daily_heat_kwh == RMul(heat, Q(hours))
    IN  RDiv(daily_heat_kwh, fuel_energy_kwh_per_kg)

\* the comparison table: one row per catalog model, in catalog order
ModelRow(params, fill, fuel, eff, burn) ==
    LET r == musson_power(params.volume_l, fill, fuel, eff, burn)
    IN  [model |-> params.model, power |-> r.p_kw, energy |-> r.useful_kwh,
         fuel_per_load |-> r.m_fuel, volume_l |-> params.volume_l,
         price |-> params.price]

ModelTable(fill, fuel, eff, burn) ==
    [i \in 1..Len(MUSSON_MODELS) |->
        ModelRow(MUSSON_MODELS[i], fill, fuel, eff, burn)]

----------------------------------------------------------------------------
(* Recommendation and projection.                                          *)

\* Adequate with the comparison turned round
Adequate_reversed(r, heat) == RLe(r.power, RequiredPower(heat))

Adequate(r, heat) == RLe(RequiredPower(heat), r.power)

\* SuitableModels without the filter
SuitableModels_unfiltered(rs, heat) == rs

\* [r for r in results if r["power"] >= heat_loss_kw * 1.2]
SuitableModels(rs, heat) == SelectSeq(rs, LAMBDA r : Adequate(r, heat))

\* MinByPrice keeping the dearer row
RECURSIVE MinByPrice_max(_, _)
MinByPrice_max(rs, best) ==
    IF rs = <<>> THEN best
    ELSE MinByPrice_max(Tail(rs),
                        IF Head(rs).price > best.price THEN Head(rs) ELSE best)

\* min(suitable_models, key=lambda x: x["price"]): the first row of least price
RECURSIVE MinByPrice(_, _)
MinByPrice(rs, best) ==
    IF rs = <<>> THEN best
    ELSE MinByPrice(Tail(rs),
                    IF Head(rs).price < best.price THEN Head(rs) ELSE best)

\* BestModel taking the last suitable row
BestModel_last(suitable) == suitable[Len(suitable)]

BestModel(suitable) == MinByPrice(Tail(suitable), Head(suitable))

\* LoadsPerDay rounding down
LoadsPerDay_floor(hours, burn) == Max(1, hours \div burn)

\* max(1, math.ceil(working_hours / burn_hours))
LoadsPerDay(hours, burn) == Max(1, Ceil(R(hours, burn)))

WorkingDaysPerMonth == 22
SeasonMonths == 7

FuelEnergyPerKg(fuel, eff) == RMul(RDiv(FUEL_TYPES[fuel].q, R(36, 10)), eff)

Projection(heat, hours, fuel, eff, burn) ==
    LET fuel_energy_kwh_kg == FuelEnergyPerKg(fuel, eff)
        daily_fuel_kg == calculate_fuel_consumption(heat, hours, fuel_energy_kwh_kg)
        fuel_price_per_kg == RDiv(Q(FUEL_TYPES[fuel].price_per_ton), Q(1000))
        daily_cost == RMul(daily_fuel_kg, fuel_price_per_kg)
        monthly_cost == RMul(daily_cost, Q(WorkingDaysPerMonth))
        seasonal_cost == RMul(monthly_cost, Q(SeasonMonths))
    IN  [daily_fuel_kg |-> daily_fuel_kg,
         loads_per_day |-> LoadsPerDay(hours, burn),
         monthly_fuel_kg |-> RMul(daily_fuel_kg, Q(WorkingDaysPerMonth)),
         seasonal_fuel_kg |->
            RMul(RMul(daily_fuel_kg, Q(WorkingDaysPerMonth)), Q(SeasonMonths)),
         daily_cost |-> daily_cost,
         monthly_cost |-> monthly_cost,
         seasonal_cost |-> seasonal_cost]

----------------------------------------------------------------------------
(* Widget values.  Each set is a sample of the widget's range; the sets    *)
(* named by a bound grow with it.                                          *)

MaxSideStep == 3
MaxWindowStep == 1

\* number_input 20..500, default 100: the squares of 5, 10, 15, ...
AreaInputs == {a \in {(5 * k) * (5 * k) : k \in 1..MaxSideStep} : a >= 20 /\ a <= 500}
\* number_input 2.0..5.0, default 3.5
HeightInputs == {R(7, 2)}
MaterialInputs == {"kirpich", "gazoblok"}
\* slider 10..100 cm, default 40, divided by 100
ThicknessInputs == {R(40, 100)}
\* number_input 0..50, default 10
WindowInputs == {w \in {10 * k : k \in 0..MaxWindowStep} : w <= 50}
\* number_input 0..10, default 3
DoorInputs == {3}
\* slider 10..25, default 18
TInInputs == {10}
\* slider -50..10, default -15 (differences of 50, 25 and 0 K)
TOutInputs == {-40, -15, 10}
\* selectbox [8, 12, 16]
WorkingHoursInputs == {8, 12, 16}
FuelInputs == {"hvoynye", "dub", "mebelnye_othody"}
\* slider 50..100 %, default 90, divided by 100
FillInputs == {R(50, 100), R(90, 100)}
\* slider 70..95 %, default 85, divided by 100
EfficiencyInputs == {R(85, 100), R(95, 100)}
\* selectbox [2, 4, 6, 12]
BurnHoursInputs == {2, 4, 6, 12}

NoValue == <<>>

Derived0 ==
    /\ pc = "start"
    /\ heat_loss_kw = NoValue
    /\ breakdown = NoValue
    /\ results = <<>>
    /\ suitable_models = <<>>
    /\ best_model = NoValue
    /\ projection = NoValue

\* the script as the widgets drive it
Init ==
    /\ area_m2 \in AreaInputs
    /\ height_m \in HeightInputs
    /\ wall_thickness \in ThicknessInputs
    /\ material \in MaterialInputs
    /\ t_in \in TInInputs
    /\ t_out \in TOutInputs
    /\ windows_m2 \in WindowInputs
    /\ doors_m2 \in DoorInputs
    /\ roof_insulation \in BOOLEAN
    /\ working_hours \in WorkingHoursInputs
    /\ fuel_type \in FuelInputs
    /\ fill_fraction \in FillInputs
    /\ efficiency \in EfficiencyInputs
    /\ burn_hours \in BurnHoursInputs
    /\ Derived0

----------------------------------------------------------------------------
(* The script's sections.                                                  *)

\* heat_loss_kw = calc_heat_loss(...)
HeatLoss ==
    /\ pc = "start"
    /\ IF calc_heat_loss_raises(area_m2, wall_thickness, material) # ""
       THEN /\ pc' = "error"
            /\ UNCHANGED heat_loss_kw
       ELSE /\ pc' = "heat"
            /\ heat_loss_kw' =
                 calc_heat_loss(area_m2, height_m, wall_thickness, material,
                                t_in, t_out, windows_m2, doors_m2, roof_insulation)
    /\ UNCHANGED <<inputs, breakdown, results, suitable_models, best_model, projection>>

\* the metrics and the expander with the detailed heat-loss calculation
ShowBreakdown ==
    /\ pc = "heat"
    /\ pc' = "breakdown"
    /\ breakdown' = ReportedBreakdown(heat_loss_kw)
    /\ UNCHANGED <<inputs, heat_loss_kw, results, suitable_models, best_model, projection>>

\* results = [...] for every catalog model
CompareModels ==
    /\ pc = "breakdown"
    /\ IF musson_power_raises(fuel_type, burn_hours) # ""
       THEN /\ pc' = "error"
            /\ UNCHANGED results
       ELSE /\ pc' = "table"
            /\ results' = ModelTable(fill_fraction, fuel_type, efficiency, burn_hours)
    /\ UNCHANGED <<inputs, heat_loss_kw, breakdown, suitable_models, best_model, projection>>

\* suitable_models = [...]
SelectSuitable ==
    /\ pc = "table"
    /\ pc' = "suitable"
    /\ suitable_models' = SuitableModels(results, heat_loss_kw)
    /\ UNCHANGED <<inputs, heat_loss_kw, breakdown, results, best_model, projection>>

\* if suitable_models: the recommendation, the consumption and the cost
Recommend ==
    /\ pc = "suitable"
    /\ suitable_models # <<>>
    /\ best_model' = BestModel(suitable_models)
    /\ IF IsZero(FuelEnergyPerKg(fuel_type, efficiency))
       THEN /\ pc' = "error"
            /\ UNCHANGED projection
       ELSE /\ pc' = "done"
            /\ projection' = Projection(heat_loss_kw, working_hours, fuel_type,
                                        efficiency, burn_hours)
    /\ UNCHANGED <<inputs, heat_loss_kw, breakdown, results, suitable_models>>

\* else: st.error and the improvement hints
Deficiency ==
    /\ pc = "suitable"
    /\ suitable_models = <<>>
    /\ pc' = "deficient"
    /\ UNCHANGED <<inputs, heat_loss_kw, breakdown, results, suitable_models,
                   best_model, projection>>

Next ==
    \/ HeatLoss
    \/ ShowBreakdown
    \/ CompareModels
    \/ SelectSuitable
    \/ Recommend
    \/ Deficiency

Spec == Init /\ [][Next]_vars

----------------------------------------------------------------------------
(* The core functions called directly with any record, valid or not        *)
(* (the widgets' range limits do not apply).                               *)

CoreAreaInputs == {-1, 0, 1, 100}
CoreHeightInputs == {Q(1), R(7, 2)}
CoreThicknessInputs == {R(-1, 10), Q(0), R(1, 10)}
CoreMaterialInputs == {"kirpich", "unknown"}
CoreTOutInputs == {-15, 10}
CoreWindowInputs == {0, 50}
CoreFuelInputs == {"hvoynye", "unknown"}
CoreFillInputs == {Q(0), R(90, 100)}
CoreEfficiencyInputs == {Q(0), R(85, 100)}
CoreBurnHoursInputs == {0, 6, 12}

InitCore ==
    /\ area_m2 \in CoreAreaInputs
    /\ height_m \in CoreHeightInputs
    /\ wall_thickness \in CoreThicknessInputs
    /\ material \in CoreMaterialInputs
    /\ t_in \in TInInputs
    /\ t_out \in CoreTOutInputs
    /\ windows_m2 \in CoreWindowInputs
    /\ doors_m2 \in DoorInputs
    /\ roof_insulation \in BOOLEAN
    /\ working_hours \in {8}
    /\ fuel_type \in CoreFuelInputs
    /\ fill_fraction \in CoreFillInputs
    /\ efficiency \in CoreEfficiencyInputs
    /\ burn_hours \in CoreBurnHoursInputs
    /\ Derived0

SpecCore == InitCore /\ [][Next]_vars

----------------------------------------------------------------------------
(* One building, every catalog fuel and a finer sample of the fuel         *)
(* settings: the specification the power evaluation is studied under.      *)

\* slider 50..100 %, divided by 100
PowerFillInputs == {R(50, 100), R(70, 100), R(90, 100), R(100, 100)}
\* slider 70..95 %, divided by 100
PowerEfficiencyInputs == {R(70, 100), R(85, 100), R(95, 100)}

InitPower ==
    /\ area_m2 \in AreaInputs
    /\ height_m \in HeightInputs
    /\ wall_thickness \in ThicknessInputs
    /\ material = "gazoblok"
    /\ t_in \in TInInputs
    /\ t_out = -40
    /\ windows_m2 = 10
    /\ doors_m2 \in DoorInputs
    /\ roof_insulation \in BOOLEAN
    /\ working_hours = 8
    /\ fuel_type \in DOMAIN FUEL_TYPES
    /\ fill_fraction \in PowerFillInputs
    /\ efficiency \in PowerEfficiencyInputs
    /\ burn_hours \in BurnHoursInputs
    /\ Derived0

SpecPower == InitPower /\ [][Next]_vars

----------------------------------------------------------------------------
(* Properties.                                                             *)

SuitableKnown == pc \in {"suitable", "done", "deficient"}

Rows == {results[i] : i \in 1..Len(results)}
SuitableRows == {suitable_models[i] : i \in 1..Len(suitable_models)}

\* power >= 1.2 * heat_loss_kw, written out
MeetsRequired(r) == RLe(RMul(heat_loss_kw, R(6, 5)), r.power)

\* C1: a model is adequate iff its power >= 1.2 * heat_loss_kw, and the
\* recommended model is an adequate model of minimal price among the
\* adequate models.
C1_CheapestAdequate ==
    /\ SuitableKnown =>
          \A r \in Rows : (r \in SuitableRows) <=> MeetsRequired(r)
    /\ pc = "done" =>
          /\ best_model \in SuitableRows
          /\ MeetsRequired(best_model)
          /\ \A r \in Rows : MeetsRequired(r) => best_model.price <= r.price

\* several models are adequate, not all, and one is recommended
C1_Witness ==
    /\ pc = "done"
    /\ Len(suitable_models) >= 2
    /\ Len(suitable_models) < Len(results)

\* C2: with no adequate model the outcome is the deficiency notice, with no
\* recommendation and no projection; a recommendation and a projection are
\* produced exactly when some model is adequate.
C2_DeficiencyOrRecommendation ==
    /\ pc = "deficient" =>
          /\ \A r \in Rows : ~MeetsRequired(r)
          /\ best_model = NoValue
          /\ projection = NoValue
    /\ pc = "done" =>
          /\ \E r \in Rows : MeetsRequired(r)
          /\ best_model # NoValue
          /\ projection # NoValue
    /\ (best_model # NoValue \/ projection # NoValue) => pc = "done"
    /\ pc = "suitable" =>
          ((suitable_models # <<>>) <=> (\E r \in Rows : MeetsRequired(r)))

\* a building that loses heat and no model that covers it
C2_Witness ==
    /\ pc = "deficient"
    /\ RLt(Q(0), heat_loss_kw)
    /\ \A r \in Rows : RLt(Q(0), r.power)

InvalidBuilding ==
    \/ area_m2 <= 0
    \/ wall_thickness[1] <= 0
    \/ material \notin DOMAIN MATERIALS

InvalidFuel ==
    \/ burn_hours <= 0
    \/ efficiency[1] <= 0
    \/ fill_fraction[1] <= 0
    \/ fuel_type \notin DOMAIN FUEL_TYPES

\* C3: a computation with a non-positive area, wall thickness, burn_hours,
\* efficiency or fill_fraction, or an unknown material or fuel key, never
\* yields a numeric heat loss, power or recommendation.
C3_InvalidInputRejected ==
    /\ InvalidBuilding => heat_loss_kw = NoValue
    /\ InvalidFuel => results = <<>>
    /\ (InvalidBuilding \/ InvalidFuel) =>
          /\ best_model = NoValue
          /\ pc \notin {"done", "deficient"}

KW(w) == RDiv(w, Q(1000))

\* C4: the reported components are the formula's own terms and sum to the
\* reported total.
C4_BreakdownIsFormulaTerms ==
    breakdown # NoValue =>
       /\ breakdown.walls =
            KW(QWalls(area_m2, height_m, wall_thickness, material, t_in, t_out,
                      windows_m2, doors_m2))
       /\ breakdown.windows_doors =
            KW(RAdd(QWindows(windows_m2, t_in, t_out), QDoors(doors_m2, t_in, t_out)))
       /\ breakdown.roof = KW(QRoof(area_m2, t_in, t_out, roof_insulation))
       /\ breakdown.ventilation = KW(QVent(area_m2, height_m, t_in, t_out))
       /\ RAdd(RAdd(RAdd(breakdown.walls, breakdown.windows_doors),
                    breakdown.roof), breakdown.ventilation) = heat_loss_kw

\* C5: for positive area, height, wall thickness and lambda, non-negative
\* window and door areas and t_in >= t_out, the heat loss is non-negative.
C5_HeatLossNonNegative ==
    (/\ area_m2 > 0
     /\ height_m[1] > 0
     /\ wall_thickness[1] > 0
     /\ material \in DOMAIN MATERIALS
     /\ windows_m2 >= 0
     /\ doors_m2 >= 0
     /\ t_in >= t_out
     /\ heat_loss_kw # NoValue)
    => RLe(Q(0), heat_loss_kw)

\* C6: loads_per_day is the least integer n >= 1 with
\* n * burn_hours >= working_hours.
C6_LoadsPerDayIsCeiling ==
    pc = "done" =>
       LET n == projection.loads_per_day
       IN  /\ n >= 1
           /\ n * burn_hours >= working_hours
           /\ n > 1 => (n - 1) * burn_hours < working_hours

\* 8 hours on 6-hour loads: two loads
C6_Witness ==
    /\ pc = "done"
    /\ working_hours = 8
    /\ burn_hours = 6
    /\ projection.loads_per_day = 2

\* C7: daily fuel = heat_loss_kw * working_hours / ((q / 3.6) * efficiency),
\* monthly = 22 * daily, seasonal = 7 * monthly, and each cost is the
\* corresponding fuel mass times price_per_ton / 1000.
C7_ProjectionRelations ==
    pc = "done" =>
       LET per_kg == RMul(RDiv(FUEL_TYPES[fuel_type].q, R(18, 5)), efficiency)
           price_kg == R(FUEL_TYPES[fuel_type].price_per_ton, 1000)
       IN  /\ RMul(projection.daily_fuel_kg, per_kg) =
                RMul(heat_loss_kw, Q(working_hours))
           /\ projection.monthly_fuel_kg = RMul(Q(22), projection.daily_fuel_kg)
           /\ projection.seasonal_fuel_kg = RMul(Q(7), projection.monthly_fuel_kg)
           /\ projection.daily_cost = RMul(projection.daily_fuel_kg, price_kg)
           /\ projection.monthly_cost = RMul(projection.monthly_fuel_kg, price_kg)
           /\ projection.seasonal_cost = RMul(projection.seasonal_fuel_kg, price_kg)

C7_Witness ==
    /\ pc = "done"
    /\ RLt(Q(0), projection.daily_fuel_kg)
    /\ RLt(projection.daily_cost, projection.seasonal_cost)

Densities == {FUEL_TYPES[f].density : f \in DOMAIN FUEL_TYPES}
CalorificValues == {FUEL_TYPES[f].q : f \in DOMAIN FUEL_TYPES}

PowerAt(v, fill, density, q, eff, burn) ==
    load_power(v, fill, density, q, eff, burn).p_kw

\* C8: power_kw is non-decreasing in fill_fraction, efficiency, density and
\* q and non-increasing in burn_hours, the other inputs held fixed.
C8_PowerMonotone ==
    pc = "table" =>
       \A i \in 1..Len(results) :
          LET v == results[i].volume_l
              d == FUEL_TYPES[fuel_type].density
              q == FUEL_TYPES[fuel_type].q
              p == results[i].power
          IN  /\ \A f2 \in PowerFillInputs :
                    RLe(fill_fraction, f2) =>
                       RLe(p, PowerAt(v, f2, d, q, efficiency, burn_hours))
              /\ \A e2 \in PowerEfficiencyInputs :
                    RLe(efficiency, e2) =>
                       RLe(p, PowerAt(v, fill_fraction, d, q, e2, burn_hours))
              /\ \A d2 \in Densities :
                    d <= d2 =>
                       RLe(p, PowerAt(v, fill_fraction, d2, q, efficiency, burn_hours))
              /\ \A q2 \in CalorificValues :
                    RLe(q, q2) =>
                       RLe(p, PowerAt(v, fill_fraction, d, q2, efficiency, burn_hours))
              /\ \A b2 \in BurnHoursInputs :
                    burn_hours <= b2 =>
                       RLe(PowerAt(v, fill_fraction, d, q, efficiency, b2), p)

\* a table whose powers strictly grow with a fuller firebox and strictly
\* drop with a longer burn
C8_Witness ==
    /\ pc = "table"
    /\ \E f2 \in PowerFillInputs :
          RLt(results[1].power,
              PowerAt(results[1].volume_l, f2, FUEL_TYPES[fuel_type].density,
                      FUEL_TYPES[fuel_type].q, efficiency, burn_hours))
    /\ \E b2 \in BurnHoursInputs :
          RLt(PowerAt(results[1].volume_l, fill_fraction,
                      FUEL_TYPES[fuel_type].density, FUEL_TYPES[fuel_type].q,
                      efficiency, b2),
              results[1].power)

\* C9: when a model is recommended and heat_loss_kw >= 0, the daily fuel
\* mass is at most loads_per_day times the recommended model's fuel per load.
C9_DailyFuelFitsLoads ==
    (pc = "done" /\ RLe(Q(0), heat_loss_kw)) =>
       RLe(projection.daily_fuel_kg,
           RMul(Q(projection.loads_per_day), best_model.fuel_per_load))

C9_Witness ==
    /\ pc = "done"
    /\ RLt(Q(0), heat_loss_kw)
    /\ projection.loads_per_day >= 2
    /\ best_model.model # "Musson 300"

\* C10: with the shipped catalog the adequate models are upward-closed in
\* catalog order and the recommendation is the first adequate model, the one
\* of smallest volume.
C10_FirstAdequateIsCheapest ==
    /\ SuitableKnown =>
          \A i \in 1..Len(results) : \A j \in i..Len(results) :
             MeetsRequired(results[i]) => MeetsRequired(results[j])
    /\ pc = "done" =>
          /\ \E i \in 1..Len(results) :
                /\ best_model = results[i]
                /\ MeetsRequired(results[i])
                /\ \A k \in 1..(i - 1) : ~MeetsRequired(results[k])
          /\ \A r \in Rows : MeetsRequired(r) => best_model.volume_l <= r.volume_l

C10_Witness ==
    /\ pc = "done"
    /\ Len(suitable_models) = 3
    /\ best_model.model = "Musson 1000"

====
